---- MODULE Spec2Model ----
(***************************************************************************)
(* A model of streamlit_gm_dashboard.py: the seven signal scorers, the row *)
(* aggregator, the tier classifier, the reasoning/action generator, the    *)
(* upload / auto-score branch, the column normalisation, the sidebar       *)
(* filter, and the PDF report content (summary counts, area distribution,  *)
(* leaderboard).                                                           *)
(*                                                                         *)
(* Text is a sequence of atoms.  A field the code inspects character by    *)
(* character (numbers to parse, comma lists, device descriptions, tags) is *)
(* one character per atom; a fixed phrase the code only emits is one atom. *)
(* A float is held in tenths (n = 795 is 79.5), which is exact for every   *)
(* value of the input pools below.                                         *)
(***************************************************************************)
EXTENDS Integers, Sequences, FiniteSets, TLC

VARIABLES
    pc,          \* position of the script run
    uploaded,    \* the uploaded CSV file (a grid of text), or NoFile
    saved,       \* scored_leads_output.csv in the app directory, or NoFile
    df,          \* the data frame of the run
    min_score, area_filter, tag_filter, top_n,   \* sidebar widget values
    filtered,    \* the filtered slice
    top_frame,   \* the frame handed to build_pdf_bytes
    report,      \* the content build_pdf_bytes hands to the document renderer
    signal,      \* what the report handler shows: none, warning, download, error
    row, out,    \* one row and its scoring result (row-level specification)
    s, tag       \* one score and its tier (tier-level specification)

vars == <<pc, uploaded, saved, df, min_score, area_filter, tag_filter, top_n,
          filtered, top_frame, report, signal, row, out, s, tag>>

-----------------------------------------------------------------------------
(* Text helpers: Python's str methods on sequences of characters.          *)

Digits == <<"0", "1", "2", "3", "4", "5", "6", "7", "8", "9">>

UpperChars == <<"A","B","C","D","E","F","G","H","I","J","K","L","M",
                "N","O","P","Q","R","S","T","U","V","W","X","Y","Z">>

LowerChars == <<"a","b","c","d","e","f","g","h","i","j","k","l","m",
                "n","o","p","q","r","s","t","u","v","w","x","y","z">>

IsDigit(c) == \E i \in 1..10 : Digits[i] = c

DigitVal(c) == (CHOOSE i \in 1..10 : Digits[i] = c) - 1

RECURSIVE DigitsVal(_)
DigitsVal(d) ==
    IF d = <<>> THEN 0
    ELSE DigitsVal(SubSeq(d, 1, Len(d) - 1)) * 10 + DigitVal(d[Len(d)])

AllDigits(d) == \A i \in 1..Len(d) : IsDigit(d[i])

\* str(n) of an int
RECURSIVE DecStr(_)
DecStr(n) ==
    IF n < 0 THEN <<"-">> \o DecStr(-n)
    ELSE IF n < 10 THEN <<Digits[n + 1]>>
    ELSE DecStr(n \div 10) \o <<Digits[(n % 10) + 1]>>

\* str(x) of a float held in tenths: 795 -> "79.5", 850 -> "85.0"
FloatStr(t) ==
    IF t < 0 THEN <<"-">> \o DecStr((-t) \div 10) \o <<".">> \o DecStr((-t) % 10)
    ELSE DecStr(t \div 10) \o <<".">> \o DecStr(t % 10)

LowerChar(c) ==
    IF \E i \in 1..26 : UpperChars[i] = c
    THEN LowerChars[CHOOSE i \in 1..26 : UpperChars[i] = c]
    ELSE c

\* str.lower()
RECURSIVE Lower(_)
Lower(t) == IF t = <<>> THEN <<>> ELSE <<LowerChar(Head(t))>> \o Lower(Tail(t))

RECURSIVE LStrip(_)
LStrip(t) == IF t # <<>> /\ Head(t) = " " THEN LStrip(Tail(t)) ELSE t

RECURSIVE RStrip(_)
RStrip(t) ==
    IF t # <<>> /\ t[Len(t)] = " " THEN RStrip(SubSeq(t, 1, Len(t) - 1)) ELSE t

\* str.strip()
Strip(t) == RStrip(LStrip(t))

\* str.split(sep): "" splits to [""], "a,,b" to ["a", "", "b"]
RECURSIVE Split(_, _)
Split(t, sep) ==
    IF \A i \in 1..Len(t) : t[i] # sep THEN <<t>>
    ELSE LET i == CHOOSE j \in 1..Len(t) :
                      t[j] = sep /\ \A h \in 1..(j - 1) : t[h] # sep
         IN  <<SubSeq(t, 1, i - 1)>> \o Split(SubSeq(t, i + 1, Len(t)), sep)

\* sub in t
Contains(t, sub) ==
    \E i \in 0..(Len(t) - Len(sub)) : SubSeq(t, i + 1, i + Len(sub)) = sub

\* sep.join(parts)
RECURSIVE Join(_, _)
Join(parts, sep) ==
    IF parts = <<>> THEN <<>>
    ELSE IF Len(parts) = 1 THEN parts[1]
    ELSE parts[1] \o sep \o Join(Tail(parts), sep)

Range(q) == {q[i] : i \in 1..Len(q)}

Min(a, b) == IF a <= b THEN a ELSE b

-----------------------------------------------------------------------------
(* Cell values of a data frame: a Python int, a float (tenths), NaN, a str *)

IntCell(n) == [k |-> "int", n |-> n, s |-> <<>>]
FltCell(t) == [k |-> "flt", n |-> t, s |-> <<>>]
NaN        == [k |-> "nan", n |-> 0, s |-> <<>>]
StrCell(t) == [k |-> "str", n |-> 0, s |-> t]

\* The outcome of a conversion: raised, or a value (an int, or a float in
\* tenths, or the float nan).
Raised   == [ok |-> FALSE, nan |-> FALSE, v |-> 0]
Value(v) == [ok |-> TRUE, nan |-> FALSE, v |-> v]
NanValue == [ok |-> TRUE, nan |-> TRUE, v |-> 0]

Unsigned(t) == IF t # <<>> /\ Head(t) \in {"-", "+"} THEN Tail(t) ELSE t
Sign(t)     == IF t # <<>> /\ Head(t) = "-" THEN -1 ELSE 1

\* int("...") of a str: surrounding blanks, an optional sign, digits
IntOfText(t) ==
    LET b == Unsigned(Strip(t))
    IN  IF b # <<>> /\ AllDigits(b) THEN Value(Sign(Strip(t)) * DigitsVal(b))
        ELSE Raised

\* float("...") of a str, in tenths: "nan", digits, digits "." one digit
FloatOfText(t) ==
    LET u     == Strip(t)
        b     == Unsigned(u)
        parts == Split(b, ".")
    IN  IF Lower(b) = <<"n", "a", "n">> THEN NanValue
        ELSE IF Len(parts) = 1 /\ b # <<>> /\ AllDigits(b)
             THEN Value(Sign(u) * DigitsVal(b) * 10)
        ELSE IF /\ Len(parts) = 2
                /\ AllDigits(parts[1]) /\ AllDigits(parts[2])
                /\ Len(parts[2]) <= 1
                /\ Len(parts[1]) + Len(parts[2]) > 0
             THEN Value(Sign(u) * (DigitsVal(parts[1]) * 10 + DigitsVal(parts[2])))
        ELSE Raised

\* float -> int truncates toward zero
Trunc(t) == IF t >= 0 THEN t \div 10 ELSE -((-t) \div 10)

\* int(x)
PyInt(x) ==
    CASE x.k = "int" -> Value(x.n)
      [] x.k = "flt" -> Value(Trunc(x.n))
      [] x.k = "nan" -> Raised
      [] x.k = "str" -> IntOfText(x.s)

\* float(x), in tenths
PyFloat(x) ==
    CASE x.k = "int" -> Value(x.n * 10)
      [] x.k = "flt" -> Value(x.n)
      [] x.k = "nan" -> NanValue
      [] x.k = "str" -> FloatOfText(x.s)

\* str(x)
PyStr(x) ==
    CASE x.k = "int" -> DecStr(x.n)
      [] x.k = "flt" -> FloatStr(x.n)
      [] x.k = "nan" -> <<"n", "a", "n">>
      [] x.k = "str" -> x.s

\* pd.isna(x)
IsNa(x) == x.k = "nan"

-----------------------------------------------------------------------------
(* Scoring functions                                                       *)

score_recency(days) ==
    LET d == PyInt(days)
    IN  IF ~d.ok THEN 0
        ELSE IF d.v <= 1 THEN 20
        ELSE IF d.v <= 7 THEN 15
        ELSE IF d.v <= 30 THEN 10
        ELSE 0

score_frequency(n_searches_7d) ==
    LET n == PyInt(n_searches_7d)
    IN  IF ~n.ok THEN 5
        ELSE IF n.v >= 10 THEN 20
        ELSE IF n.v >= 5 THEN 15
        ELSE IF n.v >= 2 THEN 10
        ELSE 5

\* variance is float(max_b) - float(min_b), in tenths; every comparison with
\* a nan variance is False, which falls through to the last return.
score_budget(min_b, max_b) ==
    LET hi == PyFloat(max_b)
        lo == PyFloat(min_b)
        variance == hi.v - lo.v
    IN  IF ~hi.ok \/ ~lo.ok THEN 5
        ELSE IF hi.nan \/ lo.nan THEN 5
        ELSE IF variance <= 5000000 THEN 15
        ELSE IF variance <= 10000000 THEN 10
        ELSE 5

score_project_focus(matches) ==
    LET m == PyInt(matches)
    IN  IF ~m.ok THEN 0
        ELSE IF m.v >= 3 THEN 15
        ELSE IF m.v = 2 THEN 10
        ELSE IF m.v = 1 THEN 5
        ELSE 0

\* the comma-split, trimmed, non-empty parts of a text
RECURSIVE StripAll(_)
StripAll(q) == IF q = <<>> THEN <<>> ELSE <<Strip(Head(q))>> \o StripAll(Tail(q))

Parts(t) == SelectSeq(StripAll(Split(t, ",")), LAMBDA p : p # <<>>)

score_cross_platform(platforms_str) ==
    IF IsNa(platforms_str) \/ Strip(PyStr(platforms_str)) = <<>> THEN 5
    ELSE LET platforms == Parts(PyStr(platforms_str))
         IN  IF Len(platforms) >= 3 THEN 20
             ELSE IF Len(platforms) = 2 THEN 15
             ELSE 5

score_engagement(viewed_mortgage) ==
    LET v == PyInt(viewed_mortgage)
    IN  IF ~v.ok THEN 5
        ELSE IF v.v = 1 THEN 10 ELSE 5

device_bonus(device_str) ==
    LET d == Lower(PyStr(device_str))
        apple  == \/ Contains(d, <<"i","p","h","o","n","e">>)
                  \/ Contains(d, <<"i","p","a","d">>)
                  \/ Contains(d, <<"i","o","s">>)
        laptop == \/ Contains(d, <<"m","a","c","b","o","o","k">>)
                  \/ Contains(d, <<"d","e","s","k","t","o","p">>)
                  \/ Contains(d, <<"w","i","n","d","o","w","s">>)
        droid  == Contains(d, <<"a","n","d","r","o","i","d">>)
    IN  (IF apple THEN 3 ELSE 0) + (IF laptop THEN 5 ELSE 0)
        + (IF droid THEN 1 ELSE 0)

\* dict.get(key, default)
Get(r, key, default) == IF key \in DOMAIN r THEN r[key] ELSE default

EmptyStr == StrCell(<<>>)

\* the cap of min(round(raw_total), 100)
ScoreCap == 100

\* A faulty compute_score_row: the total is returned without the cap.
compute_score_row_uncapped(r) ==
    LET rec == score_recency(Get(r, "last_seen_days", EmptyStr))
        f   == score_frequency(Get(r, "searches_last_7d", EmptyStr))
        b   == score_budget(Get(r, "budget_min", IntCell(0)),
                            Get(r, "budget_max", IntCell(0)))
        p   == score_project_focus(Get(r, "project_keywords_matches", IntCell(0)))
        c   == score_cross_platform(Get(r, "platforms", EmptyStr))
        e   == score_engagement(Get(r, "viewed_mortgage_calc", IntCell(0)))
        dev == device_bonus(Get(r, "device", EmptyStr))
        raw_total == rec + f + b + p + c + e + dev
    IN  [score |-> raw_total,
         breakdown |-> [recency |-> rec, frequency |-> f, budget |-> b,
                        project_focus |-> p, cross_platform |-> c,
                        engagement |-> e, device_bonus |-> dev,
                        raw_total |-> raw_total]]

\* round() of an int is the int: every contribution is an int
compute_score_row(r) ==
    LET rec == score_recency(Get(r, "last_seen_days", EmptyStr))
        f   == score_frequency(Get(r, "searches_last_7d", EmptyStr))
        b   == score_budget(Get(r, "budget_min", IntCell(0)),
                            Get(r, "budget_max", IntCell(0)))
        p   == score_project_focus(Get(r, "project_keywords_matches", IntCell(0)))
        c   == score_cross_platform(Get(r, "platforms", EmptyStr))
        e   == score_engagement(Get(r, "viewed_mortgage_calc", IntCell(0)))
        dev == device_bonus(Get(r, "device", EmptyStr))
        raw_total == rec + f + b + p + c + e + dev
    IN  [score |-> Min(raw_total, ScoreCap),
         breakdown |-> [recency |-> rec, frequency |-> f, budget |-> b,
                        project_focus |-> p, cross_platform |-> c,
                        engagement |-> e, device_bonus |-> dev,
                        raw_total |-> raw_total]]

\* The fire emoji of "Hot" is the one atom "U+1F525".
TagHot  == <<"H", "o", "t", " ", "U+1F525">>
TagWarm == <<"W", "a", "r", "m">>
TagCold == <<"C", "o", "l", "d">>

\* A faulty tag_from_score: the Hot edge is exclusive.
tag_from_score_strict(sc) ==
    IF sc > 80 THEN TagHot
    ELSE IF sc >= 60 THEN TagWarm
    ELSE TagCold

tag_from_score(sc) ==
    IF sc >= 80 THEN TagHot
    ELSE IF sc >= 60 THEN TagWarm
    ELSE TagCold

ActionCall     == <<"Call immediately during buyer's evening hours; highlight payment plan and priority units.">>
ActionWhatsApp == <<"Send WhatsApp with project brochure and ROI comparison; follow up with call in 24-48 hrs.">>
ActionEmail    == <<"Send targeted email / WhatsApp with similar listings and financing options.">>
ActionNurture  == <<"Add to nurture drip; retarget with video creatives.">>

reasoning_and_action(r, score, breakdown) ==
    LET reasons ==
            (IF breakdown.recency >= 15 THEN << <<"recent activity">> >> ELSE <<>>)
         \o (IF breakdown.frequency >= 15 THEN << <<"high frequency of searches">> >> ELSE <<>>)
         \o (IF breakdown.project_focus >= 10 THEN << <<"project-specific interest">> >> ELSE <<>>)
         \o (IF breakdown.cross_platform >= 15 THEN << <<"cross-platform engagement">> >> ELSE <<>>)
         \o (IF breakdown.engagement >= 10 THEN << <<"engaged with mortgage/CTA">> >> ELSE <<>>)
         \o (IF breakdown.device_bonus >= 3 THEN << <<"affluent device signal">> >> ELSE <<>>)
        reason_text == IF reasons # <<>> THEN Join(reasons, <<", ">>)
                       ELSE <<"activity recorded">>
        action == IF score >= 85 THEN ActionCall
                  ELSE IF score >= 70 THEN ActionWhatsApp
                  ELSE IF score >= 60 THEN ActionEmail
                  ELSE ActionNurture
    IN  [reason |-> reason_text, action |-> action]

-----------------------------------------------------------------------------
(* Files and frames.  A CSV file is a grid of text under named columns; a  *)
(* frame is a grid of cells under named columns.                           *)

NoFile == [exists |-> FALSE, cols |-> {}, rows |-> <<>>]

CsvFile(cols, rows) == [exists |-> TRUE, cols |-> cols, rows |-> rows]

\* pd.DataFrame()
EmptyFrame == [cols |-> {}, rows |-> <<>>]

\* A faulty emptiness test: a frame with columns but no row passes.
IsEmpty_cols_only(d) == d.cols = {}

\* df.empty: no rows or no columns
IsEmpty(d) == d.rows = <<>> \/ d.cols = {}

\* the fields pd.read_csv reads as a missing value
NaTexts == {<<>>, <<"n","a","n">>, <<"N","a","N">>, <<"N","A">>}

IsIntText(t)   == Unsigned(t) # <<>> /\ AllDigits(Unsigned(t))

IsFloatText(t) == t = Strip(t) /\ Lower(Unsigned(t)) # <<"n","a","n">>
                  /\ FloatOfText(t).ok

\* the dtype pd.read_csv infers for a column from its fields
InferKind(texts) ==
    LET present == {t \in texts : t \notin NaTexts}
    IN  IF \A t \in present : IsIntText(t)
        THEN (IF present = texts /\ texts # {} THEN "int" ELSE "flt")
        ELSE IF \A t \in present : IsFloatText(t) THEN "flt"
        ELSE "str"

ParseField(kind, t) ==
    IF t \in NaTexts THEN NaN
    ELSE CASE kind = "int" -> IntCell(IntOfText(t).v)
           [] kind = "flt" -> FltCell(FloatOfText(t).v)
           [] kind = "str" -> StrCell(t)

\* pd.read_csv(f), for a file that has a header; each column's dtype is
\* inferred once, from all its fields
ReadCsv(f) ==
    LET kinds == [c \in f.cols |->
                     InferKind({f.rows[i][c] : i \in 1..Len(f.rows)})] @@ <<>>
    IN  [cols |-> f.cols,
         rows |-> [i \in 1..Len(f.rows) |->
                     [c \in f.cols |-> ParseField(kinds[c], f.rows[i][c])]]]

\* df.to_csv(path, index=False)
ToCsv(d) ==
    CsvFile(d.cols,
            [i \in 1..Len(d.rows) |->
               [c \in d.cols |->
                  LET x == d.rows[i][c]
                  IN  IF x.k = "nan" THEN <<>> ELSE PyStr(x)]])

\* the dtype of a frame's column
ColKind(d, c) ==
    IF \E i \in 1..Len(d.rows) : d.rows[i][c].k = "str" THEN "str"
    ELSE IF \E i \in 1..Len(d.rows) : d.rows[i][c].k \in {"flt", "nan"} THEN "flt"
    ELSE "int"

\* df.values is one array of the frame's common dtype: float64 for a frame
\* of int and float columns only
Upcasts(d) ==
    LET kinds == {ColKind(d, c) : c \in d.cols}
    IN  "str" \notin kinds /\ "flt" \in kinds

\* The row df.iterrows() yields, as row.to_dict(): where the frame's values
\* are float64, every int arrives as a float.
IterRow(r, upcast) ==
    IF upcast
    THEN [c \in DOMAIN r |-> IF r[c].k = "int" THEN FltCell(r[c].n * 10) ELSE r[c]]
    ELSE r

OutCols == {"score", "tag", "reasoning", "next_action"}

\* one pass of the auto-score loop: the row's dict with the four results set
ScoredRecord(r) ==
    LET res == compute_score_row(r)
        ra  == reasoning_and_action(r, res.score, res.breakdown)
    IN  [c \in (DOMAIN r) \cup OutCols |->
            CASE c = "score"       -> IntCell(res.score)
              [] c = "tag"         -> StrCell(tag_from_score(res.score))
              [] c = "reasoning"   -> StrCell(ra.reason)
              [] c = "next_action" -> StrCell(ra.action)
              [] OTHER             -> r[c]]

\* the auto-score loop and pd.DataFrame(scored_records); a frame built from
\* no record has no column
AutoScore(d) ==
    IF d.rows = <<>> THEN EmptyFrame
    ELSE LET upcast == Upcasts(d)
         IN  [cols |-> d.cols \cup OutCols,
              rows |-> [i \in 1..Len(d.rows) |->
                          ScoredRecord(IterRow(d.rows[i], upcast))]]

\* A faulty branch: decided row by row, a row whose score is missing is
\* scored again.
ScoreBranch_per_row(d) ==
    IF "score" \in d.cols
    THEN [cols |-> d.cols,
          rows |-> [i \in 1..Len(d.rows) |->
                      IF IsNa(d.rows[i]["score"])
                      THEN [c \in d.cols |-> ScoredRecord(d.rows[i])[c]]
                      ELSE d.rows[i]]]
    ELSE AutoScore(d)

\* the branch on the 'score' column
ScoreBranch(d) == IF "score" \in d.cols THEN d ELSE AutoScore(d)

expected_cols ==
    {"lead_id", "name", "location", "device", "platforms", "areas",
     "budget_min", "budget_max", "searches_last_7d", "searches_last_30d",
     "last_seen_days", "viewed_mortgage_calc", "project_keywords_matches",
     "behavior", "score", "tag", "reasoning", "next_action"}

\* every expected column the frame lacks is added, holding ""
Normalize(d) ==
    [cols |-> d.cols \cup expected_cols,
     rows |-> [i \in 1..Len(d.rows) |->
                 [c \in d.cols \cup expected_cols |->
                    IF c \in d.cols THEN d.rows[i][c] ELSE EmptyStr]]]

-----------------------------------------------------------------------------
(* Sidebar filter                                                          *)

\* the value a numeric score cell compares with, in tenths
Tenths(x) ==
    CASE x.k = "int" -> x.n * 10
      [] x.k = "flt" -> x.n

\* the options of the "Areas / Projects" multiselect
all_areas(d) ==
    UNION {Range(Parts(PyStr(d.rows[i]["areas"]))) :
             i \in {j \in 1..Len(d.rows) : ~IsNa(d.rows[j]["areas"])}}

\* the options of the "Tags" multiselect
TagOptions(d) == {d.rows[i]["tag"] : i \in 1..Len(d.rows)}

\* sorted(df['tag'].unique()) raises when a str is compared with a float
TagsSortable(d) ==
    ~(\E x, y \in TagOptions(d) : x.k = "str" /\ y.k # "str")

\* df['score'].astype(int) raises on NaN and on text that is no int
ScoresCastable(d) == \A i \in 1..Len(d.rows) : PyInt(d.rows[i]["score"]).ok

\* the three successive selections of the filtered slice
Filter(d, ms, af, tf) ==
    LET byScore == SelectSeq(d.rows, LAMBDA r : PyInt(r["score"]).v >= ms)
        byArea  == IF af = {} THEN byScore
                   ELSE SelectSeq(byScore, LAMBDA r :
                            \E a \in af : Contains(PyStr(r["areas"]), a))
        byTag   == IF tf = {} THEN byArea
                   ELSE SelectSeq(byArea, LAMBDA r : r["tag"] \in tf)
    IN  [cols |-> d.cols, rows |-> byTag]

\* fillna(0).astype(int) of the two budget columns of the leads table
BudgetsCastable(d) ==
    \A i \in 1..Len(d.rows) : \A c \in {"budget_min", "budget_max"} :
        IsNa(d.rows[i][c]) \/ PyInt(d.rows[i][c]).ok

-----------------------------------------------------------------------------
(* Sorting: sort_values("score", ascending=False) with the default,        *)
(* unstable, sort kind: rows come out in non-increasing score, rows of     *)
(* equal score in any order.                                               *)

RemoveOne(g, x) ==
    LET i == CHOOSE j \in 1..Len(g) : g[j] = x /\ \A h \in 1..(j - 1) : g[h] # x
    IN  SubSeq(g, 1, i - 1) \o SubSeq(g, i + 1, Len(g))

RECURSIVE Arrangements(_)
Arrangements(g) ==
    IF Len(g) <= 1 \/ Cardinality(Range(g)) = 1 THEN {g}
    ELSE UNION {{<<x>> \o p : p \in Arrangements(RemoveOne(g, x))} : x \in Range(g)}

RECURSIVE SortOutcomes(_)
SortOutcomes(rows) ==
    IF rows = <<>> THEN {<<>>}
    ELSE LET m    == CHOOSE v \in {Tenths(r["score"]) : r \in Range(rows)} :
                         \A r \in Range(rows) : Tenths(r["score"]) <= v
             top  == SelectSeq(rows, LAMBDA r : Tenths(r["score"]) = m)
             rest == SelectSeq(rows, LAMBDA r : Tenths(r["score"]) # m)
         IN  {a \o b : a \in Arrangements(top), b \in SortOutcomes(rest)}

\* .head(n)
HeadRows(rows, n) == SubSeq(rows, 1, Min(n, Len(rows)))

-----------------------------------------------------------------------------
(* PDF report content                                                      *)

LeaderboardCap == 15

NoReport == [title |-> <<>>, total |-> 0, hot |-> 0, warm |-> 0, cold |-> 0,
             dist_rows |-> <<>>, table_rows |-> <<>>]

CountRows(rows, P(_)) == Cardinality({i \in 1..Len(rows) : P(rows[i])})

\* every area occurrence, in row order: the keys the loop adds one to
RECURSIVE AreaParts(_)
AreaParts(rows) ==
    IF rows = <<>> THEN <<>>
    ELSE (IF IsNa(Head(rows)["areas"]) THEN <<>>
          ELSE Parts(PyStr(Head(rows)["areas"])))
         \o AreaParts(Tail(rows))

\* the keys of dict dist, in insertion order
RECURSIVE FirstSeen(_)
FirstSeen(q) ==
    IF q = <<>> THEN <<>>
    ELSE LET front == FirstSeen(SubSeq(q, 1, Len(q) - 1))
         IN  IF q[Len(q)] \in Range(front) THEN front
             ELSE Append(front, q[Len(q)])

Occurrences(q, key) == Cardinality({i \in 1..Len(q) : q[i] = key})

\* sorted(dist.items(), key=count, reverse=True): stable
RECURSIVE SortedByCount(_, _)
SortedByCount(keys, q) ==
    IF keys = <<>> THEN <<>>
    ELSE LET i == CHOOSE j \in 1..Len(keys) :
                     /\ \A h \in 1..Len(keys) :
                            Occurrences(q, keys[h]) <= Occurrences(q, keys[j])
                     /\ \A h \in 1..(j - 1) :
                            Occurrences(q, keys[h]) < Occurrences(q, keys[j])
         IN  <<keys[i]>> \o
             SortedByCount(SubSeq(keys, 1, i - 1) \o SubSeq(keys, i + 1, Len(keys)), q)

DistHeader  == << <<"Project/Area">>, <<"Leads">> >>
Placeholder == << <<"(no project tags found)">>, <<"0">> >>

\* the area occurrences with the repeats inside one row dropped
RECURSIVE AreaPartsOncePerRow(_)
AreaPartsOncePerRow(rows) ==
    IF rows = <<>> THEN <<>>
    ELSE (IF IsNa(Head(rows)["areas"]) THEN <<>>
          ELSE FirstSeen(Parts(PyStr(Head(rows)["areas"]))))
         \o AreaPartsOncePerRow(Tail(rows))

\* A faulty distribution: an area counts once per row.
DistRows_once_per_row(rows) ==
    LET q      == AreaPartsOncePerRow(rows)
        sorted == SortedByCount(FirstSeen(q), q)
        body   == [i \in 1..Len(sorted) |->
                     <<sorted[i], DecStr(Occurrences(q, sorted[i]))>>]
    IN  IF body = <<>> THEN <<DistHeader, Placeholder>>
        ELSE <<DistHeader>> \o body

DistRows(rows) ==
    LET q      == AreaParts(rows)
        sorted == SortedByCount(FirstSeen(q), q)
        body   == [i \in 1..Len(sorted) |->
                     <<sorted[i], DecStr(Occurrences(q, sorted[i]))>>]
    IN  IF body = <<>> THEN <<DistHeader, Placeholder>>
        ELSE <<DistHeader>> \o body

TableCols   == <<"lead_id", "name", "location", "score", "tag", "next_action">>
TableHeader == [i \in 1..6 |->
                  StrCell(<< <<"ID">>, <<"Name">>, <<"Location">>, <<"Score">>,
                             <<"Tag">>, <<"Next Action">> >>[i])]

\* one row of topn[...].fillna("").values.tolist()
TableRow(r) == [i \in 1..6 |-> IF IsNa(r[TableCols[i]]) THEN EmptyStr
                               ELSE r[TableCols[i]]]

\* A faulty build_pdf_bytes: the Warm count leaves out score 60.
build_pdf_bytes_warm_strict(d, campaign_title, order) ==
    LET topn == HeadRows(order, LeaderboardCap)
    IN  [title |-> campaign_title,
         total |-> Len(d.rows),
         hot   |-> CountRows(d.rows, LAMBDA r : Tenths(r["score"]) >= 800),
         warm  |-> CountRows(d.rows, LAMBDA r : Tenths(r["score"]) > 600
                                                /\ Tenths(r["score"]) < 800),
         cold  |-> CountRows(d.rows, LAMBDA r : Tenths(r["score"]) < 600),
         dist_rows  |-> DistRows(d.rows),
         table_rows |-> <<TableHeader>> \o [i \in 1..Len(topn) |-> TableRow(topn[i])]]

\* The content build_pdf_bytes(df, campaign_title) puts in the story, where
\* order is the outcome of its sort_values call on the rows of df.
build_pdf_bytes(d, campaign_title, order) ==
    LET topn == HeadRows(order, LeaderboardCap)
    IN  [title |-> campaign_title,
         total |-> Len(d.rows),
         hot   |-> CountRows(d.rows, LAMBDA r : Tenths(r["score"]) >= 800),
         warm  |-> CountRows(d.rows, LAMBDA r : Tenths(r["score"]) >= 600
                                                /\ Tenths(r["score"]) < 800),
         cold  |-> CountRows(d.rows, LAMBDA r : Tenths(r["score"]) < 600),
         dist_rows  |-> DistRows(d.rows),
         table_rows |-> <<TableHeader>> \o [i \in 1..Len(topn) |-> TableRow(topn[i])]]

-----------------------------------------------------------------------------
(* Input pools: the CSV files a user uploads.                              *)

RawCols ==
    {"lead_id", "name", "location", "device", "platforms", "areas",
     "budget_min", "budget_max", "searches_last_7d", "last_seen_days", "viewed_mortgage_calc", "project_keywords_matches"}

ScoredCols ==
    {"lead_id", "name", "location", "areas", "budget_min", "budget_max",
     "score", "tag", "reasoning", "next_action"}

\* 20+20+15+15+20+10+3 = 103, capped to 100
RowHot ==
    [c \in RawCols |->
        CASE c = "lead_id" -> <<"1", "0", "1">>
          [] c = "name" -> <<"Ann">>
          [] c = "location" -> <<"Dubai">>
          [] c = "device" -> <<"i", "P", "h", "o", "n", "e", " ", "1", "4">>
          [] c = "platforms" -> <<"F", "a", "c", "e", "b", "o", "o", "k", ",", "I", "n", "s", "t", "a", "g", "r", "a", "m", ",", "G", "o", "o", "g", "l", "e">>
          [] c = "areas" -> <<"M", "a", "r", "i", "n", "a", ",", " ", "D", "o", "w", "n", "t", "o", "w", "n">>
          [] c = "budget_min" -> <<"1", "0", "0", "0", "0", "0">>
          [] c = "budget_max" -> <<"2", "0", "0", "0", "0", "0">>
          [] c = "searches_last_7d" -> <<"1", "2">>
          [] c = "last_seen_days" -> <<"0">>
          [] c = "viewed_mortgage_calc" -> <<"1">>
          [] c = "project_keywords_matches" -> <<"3">>]

\* 15+15+10+10+15+5+1 = 71
RowWarm ==
    [c \in RawCols |->
        CASE c = "lead_id" -> <<"1", "0", "2">>
          [] c = "name" -> <<"Bob">>
          [] c = "location" -> <<"Sharjah">>
          [] c = "device" -> <<"A", "n", "d", "r", "o", "i", "d">>
          [] c = "platforms" -> <<"f", "b", ",", " ", "i", "g">>
          [] c = "areas" -> <<"M", "a", "r", "i", "n", "a">>
          [] c = "budget_min" -> <<"1", "0", "0", "0", "0", "0">>
          [] c = "budget_max" -> <<"9", "0", "0", "0", "0", "0">>
          [] c = "searches_last_7d" -> <<"5">>
          [] c = "last_seen_days" -> <<"5">>
          [] c = "viewed_mortgage_calc" -> <<"0">>
          [] c = "project_keywords_matches" -> <<"2">>]

\* every scoring field blank: 0+5+5+0+5+5+0 = 20
RowBlank ==
    [c \in RawCols |->
        CASE c = "lead_id" -> <<"1", "0", "3">>
          [] c = "name" -> <<"Cy">>
          [] c = "location" -> <<>>
          [] c = "device" -> <<>>
          [] c = "platforms" -> <<>>
          [] c = "areas" -> <<>>
          [] c = "budget_min" -> <<>>
          [] c = "budget_max" -> <<>>
          [] c = "searches_last_7d" -> <<>>
          [] c = "last_seen_days" -> <<>>
          [] c = "viewed_mortgage_calc" -> <<>>
          [] c = "project_keywords_matches" -> <<>>]

\* 0+20+15+10+15+5+6 = 71, the score of RowWarm
RowOdd ==
    [c \in RawCols |->
        CASE c = "lead_id" -> <<"1", "0", "4">>
          [] c = "name" -> <<"Dee">>
          [] c = "location" -> <<"Ajman">>
          [] c = "device" -> <<"W", "i", "n", "d", "o", "w", "s", " ", "/", " ", "a", "n", "d", "r", "o", "i", "d">>
          [] c = "platforms" -> <<"f", "b", ",", "i", "g">>
          [] c = "areas" -> <<"D", "o", "w", "n", "t", "o", "w", "n", ",", ",", "M", "a", "r", "i", "n", "a", " ", ",", "M", "a", "r", "i", "n", "a">>
          [] c = "budget_min" -> <<"1", "0", "0", "0", "0", "0">>
          [] c = "budget_max" -> <<"2", "0", "0", "0", "0", "0">>
          [] c = "searches_last_7d" -> <<"1", "2">>
          [] c = "last_seen_days" -> <<"s", "o", "o", "n">>
          [] c = "viewed_mortgage_calc" -> <<"0">>
          [] c = "project_keywords_matches" -> <<"2">>]

\* a pre-scored lead of score 85
PreHot ==
    [c \in ScoredCols |->
        CASE c = "lead_id" -> <<"P1">>
          [] c = "name" -> <<"Eve">>
          [] c = "location" -> <<"Dubai">>
          [] c = "areas" -> <<"M", "a", "r", "i", "n", "a">>
          [] c = "budget_min" -> <<"1", "0", "0", "0", "0", "0">>
          [] c = "budget_max" -> <<"2", "0", "0", "0", "0", "0">>
          [] c = "score" -> <<"8", "5">>
          [] c = "tag" -> TagHot
          [] c = "reasoning" -> <<"recent activity">>
          [] c = "next_action" -> ActionCall]

\* score 60, the lower edge of Warm
PreWarm ==
    [c \in ScoredCols |->
        CASE c = "lead_id" -> <<"P2">>
          [] c = "name" -> <<"Fay">>
          [] c = "location" -> <<"Dubai">>
          [] c = "areas" -> <<"D", "o", "w", "n", "t", "o", "w", "n", ",", " ", "M", "a", "r", "i", "n", "a">>
          [] c = "budget_min" -> <<"3", "0", "0", "0", "0", "0">>
          [] c = "budget_max" -> <<"4", "0", "0", "0", "0", "0">>
          [] c = "score" -> <<"6", "0">>
          [] c = "tag" -> TagWarm
          [] c = "reasoning" -> <<"recent activity">>
          [] c = "next_action" -> ActionEmail]

\* a float score, 79.5
PreFloat ==
    [c \in ScoredCols |->
        CASE c = "lead_id" -> <<"P3">>
          [] c = "name" -> <<"Gus">>
          [] c = "location" -> <<>>
          [] c = "areas" -> <<>>
          [] c = "budget_min" -> <<"3", "0", "0", "0", "0", "0", ".", "5">>
          [] c = "budget_max" -> <<>>
          [] c = "score" -> <<"7", "9", ".", "5">>
          [] c = "tag" -> TagWarm
          [] c = "reasoning" -> <<"activity recorded">>
          [] c = "next_action" -> ActionWhatsApp]

\* score, tag, reasoning and action blank
PreNoScore ==
    [c \in ScoredCols |->
        CASE c = "lead_id" -> <<"P4">>
          [] c = "name" -> <<"Hal">>
          [] c = "location" -> <<>>
          [] c = "areas" -> <<"P", "a", "l", "m">>
          [] c = "budget_min" -> <<"1">>
          [] c = "budget_max" -> <<"2">>
          [] c = "score" -> <<>>
          [] c = "tag" -> <<>>
          [] c = "reasoning" -> <<>>
          [] c = "next_action" -> <<>>]

\* score 59 and no lead_id
PreCold ==
    [c \in ScoredCols |->
        CASE c = "lead_id" -> <<>>
          [] c = "name" -> <<"Ida">>
          [] c = "location" -> <<"Dubai">>
          [] c = "areas" -> <<"P", "a", "l", "m", " ", ",", "P", "a", "l", "m">>
          [] c = "budget_min" -> <<"1">>
          [] c = "budget_max" -> <<"2">>
          [] c = "score" -> <<"5", "9">>
          [] c = "tag" -> TagCold
          [] c = "reasoning" -> <<"activity recorded">>
          [] c = "next_action" -> ActionNurture]

RawPool    == {RowHot, RowWarm, RowBlank, RowOdd}
ScoredPool == {PreHot, PreWarm, PreFloat, PreNoScore, PreCold}

\* the column sets raw files come with: all columns, no budget columns,
\* numeric columns only
RawVariants ==
    {RawCols, RawCols \ {"budget_min", "budget_max"},
     {"lead_id", "last_seen_days", "searches_last_7d"}}

\* pre-scored files: all columns, or the score without tag and action
ScoredVariants ==
    {ScoredCols, {"lead_id", "areas", "budget_min", "budget_max", "score"}}

MaxRows == 2

Restrict(r, cols) == [c \in cols |-> r[c]]

SeqsUpTo(pool, n) == UNION {[1..m -> pool] : m \in 0..n}

SmallFiles(pool, variants) ==
    {CsvFile(cols, [i \in 1..Len(q) |-> Restrict(q[i], cols)]) :
        cols \in variants, q \in SeqsUpTo(pool, MaxRows)}

\* n rows, alternately a and b
LongFile(cols, a, b, n) ==
    CsvFile(cols, [i \in 1..n |-> IF i % 2 = 1 THEN a ELSE b])

TopNOptions == {10, 25, 50, 100}

\* one row more than each "Top N" option and than the leaderboard holds
LongSizes == {n + 1 : n \in TopNOptions \cup {LeaderboardCap}}

LongFiles ==
    {LongFile(RawCols, RowHot, RowWarm, n) : n \in LongSizes}
    \cup {LongFile(ScoredCols, PreWarm, PreHot, n) : n \in LongSizes}

\* what the app saved after scoring a raw file of all columns
ScoredOnce ==
    {ToCsv(ScoreBranch(ReadCsv(f))) : f \in SmallFiles(RawPool, {RawCols})}

\* a file without header, which pd.read_csv refuses
HeaderlessFile == CsvFile({}, <<>>)

InputFiles ==
    SmallFiles(RawPool, RawVariants) \cup SmallFiles(ScoredPool, ScoredVariants)
    \cup LongFiles \cup ScoredOnce \cup {HeaderlessFile}

MinScoreChoices == {0, 60, 80}

DefaultTitle == <<"Off-Plan Campaign Intelligence">>

-----------------------------------------------------------------------------
(* One run of the script                                                   *)

NoRow == <<>>
NoOut == [score |-> 0, tag |-> <<>>, reason |-> <<>>, action |-> <<>>,
          breakdown |-> [recency |-> 0, frequency |-> 0, budget |-> 0,
                         project_focus |-> 0, cross_platform |-> 0,
                         engagement |-> 0, device_bonus |-> 0, raw_total |-> 0]]

\* the app directory holds no scored file, or one the app saved earlier
Init ==
    /\ pc = "start"
    /\ uploaded = NoFile
    /\ saved \in {NoFile} \cup ScoredOnce
    /\ df = EmptyFrame
    /\ min_score = 60 /\ area_filter = {} /\ tag_filter = {} /\ top_n = 25
    /\ filtered = EmptyFrame
    /\ top_frame = EmptyFrame
    /\ report = NoReport
    /\ signal = "none"
    /\ row = NoRow /\ out = NoOut /\ s = 0 /\ tag = <<>>

\* A file is uploaded: read it, score it unless it has a score column, and
\* persist the result.  A file pd.read_csv refuses stops the run.
Upload(f) ==
    /\ pc = "start"
    /\ uploaded' = f
    /\ IF f.cols = {}
       THEN /\ pc' = "stopped"
            /\ UNCHANGED <<df, saved>>
       ELSE /\ df' = ScoreBranch(ReadCsv(f))
            /\ saved' = ToCsv(df')
            /\ pc' = "loaded"
    /\ UNCHANGED <<min_score, area_filter, tag_filter, top_n, filtered,
                   top_frame, report, signal, row, out, s, tag>>

\* No upload: load the scored file of the app directory, if it reads
NoUpload ==
    /\ pc = "start"
    /\ df' = IF saved.exists /\ saved.cols # {} THEN ReadCsv(saved) ELSE EmptyFrame
    /\ pc' = "loaded"
    /\ UNCHANGED <<uploaded, saved, min_score, area_filter, tag_filter, top_n,
                   filtered, top_frame, report, signal, row, out, s, tag>>

\* if df.empty: st.stop()
StopEmpty ==
    /\ pc = "loaded"
    /\ IsEmpty(df)
    /\ pc' = "stopped"
    /\ UNCHANGED <<uploaded, saved, df, min_score, area_filter, tag_filter,
                   top_n, filtered, top_frame, report, signal, row, out, s, tag>>

NormalizeColumns ==
    /\ pc = "loaded"
    /\ ~IsEmpty(df)
    /\ df' = Normalize(df)
    /\ pc' = "normalized"
    /\ UNCHANGED <<uploaded, saved, min_score, area_filter, tag_filter, top_n,
                   filtered, top_frame, report, signal, row, out, s, tag>>

\* The sidebar widgets, the filtered slice and the two columns of the page.
\* The run dies when the tags cannot be sorted, when a score cannot be cast
\* to int, when a budget of the slice cannot be cast to int, or when the
\* lead selected for inspection has a NaN lead_id (no row equals it, and
\* .iloc[0] raises).
Display ==
    /\ pc = "normalized"
    /\ IF TagsSortable(df) /\ ScoresCastable(df)
       THEN \E ms \in MinScoreChoices, tn \in TopNOptions,
               af \in {{}} \cup {{a} : a \in all_areas(df)},
               tf \in {{}} \cup {{x} : x \in TagOptions(df)} :
                /\ min_score' = ms
                /\ area_filter' = af
                /\ tag_filter' = tf
                /\ top_n' = tn
                /\ filtered' = Filter(df, ms, af, tf)
                /\ IF ~BudgetsCastable(filtered') THEN pc' = "crashed"
                   ELSE IF filtered'.rows = <<>> THEN pc' = "displayed"
                   ELSE \E i \in 1..Len(filtered'.rows) :
                           pc' = IF IsNa(filtered'.rows[i]["lead_id"])
                                 THEN "crashed" ELSE "displayed"
       ELSE /\ pc' = "crashed"
            /\ UNCHANGED <<min_score, area_filter, tag_filter, top_n, filtered>>
    /\ UNCHANGED <<uploaded, saved, df, top_frame, report, signal,
                   row, out, s, tag>>

\* A faulty top frame: the whole sorted slice, without .head(top_n).
TopFrame_whole_slice(d, order, n) == [cols |-> d.cols, rows |-> order]

\* top_frame = filtered.sort_values("score", ascending=False).head(top_n)
TopFrame(d, order, n) == [cols |-> d.cols, rows |-> HeadRows(order, n)]

\* "Generate PDF report" pressed
GenerateReport ==
    /\ pc = "displayed"
    /\ \E order \in SortOutcomes(filtered.rows) :
        /\ top_frame' = TopFrame(filtered, order, top_n)
        /\ IF IsEmpty(top_frame')
           THEN /\ signal' = "warning"
                /\ report' = NoReport
           ELSE \E inner \in SortOutcomes(top_frame'.rows), rendered \in BOOLEAN :
                /\ report' = build_pdf_bytes(top_frame', DefaultTitle, inner)
                /\ signal' = IF rendered THEN "download" ELSE "error"
    /\ pc' = "done"
    /\ UNCHANGED <<uploaded, saved, df, min_score, area_filter, tag_filter,
                   top_n, filtered, row, out, s, tag>>

Next ==
    \/ \E f \in InputFiles : Upload(f)
    \/ NoUpload
    \/ StopEmpty
    \/ NormalizeColumns
    \/ Display
    \/ GenerateReport

Spec == Init /\ [][Next]_vars

-----------------------------------------------------------------------------
(* Scoring one row: compute_score_row, tag_from_score and                  *)
(* reasoning_and_action on a row dict whose keys and values are drawn from *)
(* the pools below; Absent marks a key the dict lacks.                     *)

Absent == [k |-> "absent", n |-> 0, s |-> <<>>]

ScoreCols ==
    {"last_seen_days", "searches_last_7d", "budget_min", "budget_max",
     "project_keywords_matches", "platforms", "viewed_mortgage_calc", "device"}

RecencyPool   == {Absent, IntCell(1), FltCell(75), StrCell(<<"s", "o", "o", "n">>)}
FrequencyPool == {Absent, IntCell(10), StrCell(<<" ", "5", " ">>), NaN}
BudgetMinPool == {Absent, IntCell(100000), NaN, StrCell(<<"1", ".", "5", "m">>)}
BudgetMaxPool == {Absent, IntCell(200000), FltCell(11000005), NaN}
FocusPool     == {Absent, IntCell(3), StrCell(<<"3", ".", "0">>)}
PlatformsPool == {Absent, StrCell(<<"F", "a", "c", "e", "b", "o", "o", "k", ",", "I", "n", "s", "t", "a", "g", "r", "a", "m", ",", "G", "o", "o", "g", "l", "e">>),
                  StrCell(<<"f", "b", ",", " ", ",", "i", "g">>), NaN}
MortgagePool  == {Absent, IntCell(1), NaN}
DevicePool    == {Absent, StrCell(<<"i", "P", "h", "o", "n", "e", " ", "1", "4">>),
                  StrCell(<<"i", "P", "a", "d", ",", " ", "W", "i", "n", "d", "o", "w", "s", ",", " ", "A", "n", "d", "r", "o", "i", "d">>), NaN}

MakeRow(days, searches, lo, hi, matches, platforms, mortgage, device) ==
    LET full == [c \in ScoreCols |->
                    CASE c = "last_seen_days"           -> days
                      [] c = "searches_last_7d"         -> searches
                      [] c = "budget_min"               -> lo
                      [] c = "budget_max"               -> hi
                      [] c = "project_keywords_matches" -> matches
                      [] c = "platforms"                -> platforms
                      [] c = "viewed_mortgage_calc"     -> mortgage
                      [] c = "device"                   -> device]
    IN  [c \in {x \in ScoreCols : full[x] # Absent} |-> full[c]]

InitRow ==
    /\ pc = "row"
    /\ \E days \in RecencyPool, searches \in FrequencyPool, lo \in BudgetMinPool,
          hi \in BudgetMaxPool, matches \in FocusPool, platforms \in PlatformsPool,
          mortgage \in MortgagePool, device \in DevicePool :
            row = MakeRow(days, searches, lo, hi, matches, platforms, mortgage, device)
    /\ out = NoOut
    /\ uploaded = NoFile /\ saved = NoFile /\ df = EmptyFrame
    /\ min_score = 60 /\ area_filter = {} /\ tag_filter = {} /\ top_n = 25
    /\ filtered = EmptyFrame /\ top_frame = EmptyFrame
    /\ report = NoReport /\ signal = "none"
    /\ s = 0 /\ tag = <<>>

\* the body of the auto-score loop, on one row
ScoreRow ==
    /\ pc = "row"
    /\ LET res == compute_score_row(row)
           ra  == reasoning_and_action(row, res.score, res.breakdown)
       IN  out' = [score |-> res.score, breakdown |-> res.breakdown,
                   tag |-> tag_from_score(res.score),
                   reason |-> ra.reason, action |-> ra.action]
    /\ pc' = "row_done"
    /\ UNCHANGED <<uploaded, saved, df, min_score, area_filter, tag_filter, top_n,
                   filtered, top_frame, report, signal, row, s, tag>>

NextRow == ScoreRow

SpecRow == InitRow /\ [][NextRow]_vars

-----------------------------------------------------------------------------
(* Classifying one score: tag_from_score on every score of 0..ScoreCap     *)

InitTag ==
    /\ pc = "tag"
    /\ s \in 0..ScoreCap
    /\ tag = <<>>
    /\ row = NoRow /\ out = NoOut
    /\ uploaded = NoFile /\ saved = NoFile /\ df = EmptyFrame
    /\ min_score = 60 /\ area_filter = {} /\ tag_filter = {} /\ top_n = 25
    /\ filtered = EmptyFrame /\ top_frame = EmptyFrame
    /\ report = NoReport /\ signal = "none"

Classify ==
    /\ pc = "tag"
    /\ tag' = tag_from_score(s)
    /\ pc' = "tag_done"
    /\ UNCHANGED <<uploaded, saved, df, min_score, area_filter, tag_filter, top_n,
                   filtered, top_frame, report, signal, row, out, s>>

NextTag == Classify

SpecTag == InitTag /\ [][NextTag]_vars

-----------------------------------------------------------------------------
(* Properties                                                              *)

\* C1: for every row scored by compute_score_row, whatever its seven raw
\* inputs (valid, missing or unparseable), raw_total is the sum of the seven
\* signal contributions, score = min(raw_total, 100), and 0 <= score <= 100.
C1_ScoreIsCappedSum ==
    pc = "row_done" =>
        LET b == out.breakdown
        IN  /\ b.raw_total = b.recency + b.frequency + b.budget + b.project_focus
                             + b.cross_platform + b.engagement + b.device_bonus
            /\ out.score = Min(b.raw_total, 100)
            /\ 0 <= out.score /\ out.score <= 100

\* a row whose total, 103 or more, is capped
C1_Witness ==
    pc = "row_done" /\ out.breakdown.raw_total > 100 /\ out.score = 100

Unparseable(c, x) ==
    CASE c \in {"last_seen_days", "searches_last_7d",
                "project_keywords_matches", "viewed_mortgage_calc"}
                                          -> ~PyInt(x).ok
      [] c \in {"budget_min", "budget_max"} -> ~PyFloat(x).ok \/ PyFloat(x).nan
      [] c \in {"platforms", "device"}      -> IsNa(x) \/ Strip(PyStr(x)) = <<>>

\* every scoring field of the row is absent or unparseable
NothingParses(r) ==
    \A c \in ScoreCols : c \notin DOMAIN r \/ Unparseable(c, r[c])

\* C3: a row in which every scoring field is missing (its column absent) or
\* unparseable gets the default of each scorer: recency 0, frequency 5,
\* budget 5, project_focus 0, cross_platform 5, engagement 5, device_bonus 0,
\* so raw_total = 20, score = 20, tag = Cold, reasoning = "activity recorded"
\* and the nurture/retarget action.
C3_DefaultsWhenNothingParses ==
    pc = "row_done" /\ NothingParses(row) =>
        /\ out.breakdown = [recency |-> 0, frequency |-> 5, budget |-> 5,
                            project_focus |-> 0, cross_platform |-> 5,
                            engagement |-> 5, device_bonus |-> 0, raw_total |-> 20]
        /\ out.score = 20
        /\ out.tag = <<"C", "o", "l", "d">>
        /\ out.reason = <<"activity recorded">>
        /\ out.action = <<"Add to nurture drip; retarget with video creatives.">>

\* the data rows of the leaderboard table
LeadRows == Tail(report.table_rows)

\* the score of a leaderboard row
LeadScore(lead) == Tenths(lead[4])

\* the rows of the filtered slice with a score above x
Above(x) == {i \in 1..Len(filtered.rows) : Tenths(filtered.rows[i]["score"]) > x}

\* C4: for every non-empty filtered slice and every requested top_n, the
\* leaderboard table of the generated report holds exactly
\* min(top_n, len(rows)) lead rows, in non-increasing score order, and no row
\* left out has a higher score than a row included.
C4_LeaderboardHoldsTopN ==
    signal = "download" =>
        /\ Len(LeadRows) = Min(top_n, Len(filtered.rows))
        /\ \A i \in 1..Len(LeadRows) : \A j \in i..Len(LeadRows) :
               LeadScore(LeadRows[i]) >= LeadScore(LeadRows[j])
        /\ \A i \in 1..Len(LeadRows) :
               Cardinality(Above(LeadScore(LeadRows[i]))) < i

\* C5: when the uploaded dataset already has a score column it is passed
\* through unchanged: the frame after the score branch is the frame read from
\* the file, cell for cell, whatever its rows hold, and scoring it once more
\* leaves it as it is.
C5_PreScoredPassThrough ==
    pc = "loaded" /\ uploaded.exists /\ "score" \in uploaded.cols =>
        /\ df = ReadCsv(uploaded)
        /\ ScoreBranch(df) = df

\* a file the scorer produced, of two rows, uploaded again
C5_Witness ==
    /\ pc = "loaded" /\ uploaded \in ScoredOnce /\ Len(df.rows) >= 2
    /\ "score" \in uploaded.cols

\* C6: scoring a raw dataset of n rows yields n rows in the same order:
\* output row i carries the raw fields of input row i unchanged, plus the
\* score, tag, reasoning and next_action computed from that row alone.
C6_ScoringKeepsRows ==
    pc = "loaded" /\ uploaded.exists /\ "score" \notin uploaded.cols =>
        LET raw == ReadCsv(uploaded)
        IN  /\ Len(df.rows) = Len(raw.rows)
            /\ \A i \in 1..Len(raw.rows) :
                 LET res == compute_score_row(raw.rows[i])
                     ra  == reasoning_and_action(raw.rows[i], res.score, res.breakdown)
                 IN  /\ \A c \in raw.cols \ OutCols : df.rows[i][c] = raw.rows[i][c]
                     /\ df.rows[i]["score"] = IntCell(res.score)
                     /\ df.rows[i]["tag"] = StrCell(tag_from_score(res.score))
                     /\ df.rows[i]["reasoning"] = StrCell(ra.reason)
                     /\ df.rows[i]["next_action"] = StrCell(ra.action)

\* C7: for every scored dataset handed to build_pdf_bytes the summary counts
\* partition the total: hot + warm + cold = total = the number of rows
\* handed over.
C7_CountsPartitionTotal ==
    report # NoReport =>
        /\ report.total = Len(top_frame.rows)
        /\ report.hot + report.warm + report.cold = report.total
        /\ LET sc(i) == Tenths(top_frame.rows[i]["score"])
               n == Len(top_frame.rows)
           IN  /\ report.hot = Cardinality({i \in 1..n : sc(i) >= 800})
               /\ report.warm = Cardinality({i \in 1..n : sc(i) >= 600 /\ sc(i) < 800})
               /\ report.cold = Cardinality({i \in 1..n : sc(i) < 600})

\* a report over Hot rows and rows of score 60, the lower edge of Warm
C7_Witness ==
    /\ report # NoReport /\ report.hot > 0 /\ report.warm > 0
    /\ \E i \in 1..Len(top_frame.rows) : Tenths(top_frame.rows[i]["score"]) = 600

\* C8: when the filtered slice has no row and a report is requested, the
\* empty-report warning is shown and build_pdf_bytes is not invoked; in no
\* state has build_pdf_bytes been handed a frame without rows.
C8_EmptySliceIsSignalled ==
    /\ pc = "done" /\ filtered.rows = <<>> => signal = "warning" /\ report = NoReport
    /\ report # NoReport => top_frame.rows # <<>>
    /\ signal \in {"download", "error"} => report # NoReport

\* a dataset with rows, filtered down to nothing, and the report requested
C8_Witness ==
    pc = "done" /\ filtered.rows = <<>> /\ df.rows # <<>> /\ signal = "warning"

\* the data rows of the area distribution table
DistBody == Tail(report.dist_rows)

FirstIndex(q, key) == CHOOSE i \in 1..Len(q) : q[i] = key /\ \A h \in 1..(i - 1) : q[h] # key

\* C9: the area distribution counts, for each area name, every occurrence of
\* the name among the comma-split, trimmed, non-empty parts of the areas
\* field over all rows of the report (repeats inside one row counted each
\* time); entries come in descending count, equal counts in first-seen
\* order; with no area tag anywhere the table is the one placeholder entry
\* with count 0.
C9_AreaDistribution ==
    report # NoReport =>
        LET q == AreaParts(top_frame.rows)
        IN  IF q = <<>>
            THEN DistBody = << << <<"(no project tags found)">>, <<"0">> >> >>
            ELSE /\ {DistBody[i][1] : i \in 1..Len(DistBody)} = Range(q)
                 /\ Len(DistBody) = Cardinality(Range(q))
                 /\ \A i \in 1..Len(DistBody) :
                        DistBody[i][2] = DecStr(Occurrences(q, DistBody[i][1]))
                 /\ \A i \in 1..Len(DistBody) : \A j \in (i + 1)..Len(DistBody) :
                        \/ Occurrences(q, DistBody[i][1]) > Occurrences(q, DistBody[j][1])
                        \/ /\ Occurrences(q, DistBody[i][1]) = Occurrences(q, DistBody[j][1])
                           /\ FirstIndex(q, DistBody[i][1]) < FirstIndex(q, DistBody[j][1])

\* a report with an area repeated inside one row and two areas of equal count
C9_Witness ==
    /\ report # NoReport
    /\ \E i \in 1..Len(top_frame.rows) :
           /\ ~IsNa(top_frame.rows[i]["areas"])
           /\ LET p == Parts(PyStr(top_frame.rows[i]["areas"]))
              IN  Cardinality(Range(p)) < Len(p)
    /\ \E i, j \in 1..Len(DistBody) : i # j /\ DistBody[i][2] = DistBody[j][2]

RECURSIVE SumCounts(_)
SumCounts(body) ==
    IF body = <<>> THEN 0 ELSE DigitsVal(Head(body)[2]) + SumCounts(Tail(body))

\* C10: the summary counts and the area distribution of a report are computed
\* over the rows left after the top-N cut: the total is
\* min(top_n, rows of the filtered slice), the frame handed over holds the
\* rows of highest score, and the tier counts and the area counts add up to
\* the rows and the area occurrences of that frame alone.
C10_CountsAfterTopNCut ==
    report # NoReport =>
        /\ report.total = Min(top_n, Len(filtered.rows))
        /\ Len(top_frame.rows) = report.total
        /\ \A i \in 1..Len(top_frame.rows) :
               Cardinality(Above(Tenths(top_frame.rows[i]["score"]))) < i
        /\ report.hot + report.warm + report.cold = Len(top_frame.rows)
        /\ SumCounts(DistBody) = Len(AreaParts(top_frame.rows))

\* a slice of more rows than top_n, the rows cut off carrying area tags
C10_Witness ==
    /\ report # NoReport
    /\ Len(filtered.rows) > top_n
    /\ Len(AreaParts(filtered.rows)) > Len(AreaParts(top_frame.rows))

====
